---- MODULE Spec2Model ----
(***************************************************************************)
(* GreenHub: a node-cron scheduler (ReminderScheduler) fires the            *)
(* orchestrator (NotificationService.checkAndNotify), which asks the        *)
(* checker (GitHubService.hasContributionToday) and, when the answer is     *)
(* "no contribution", the notifier (EmailService.sendReminder).             *)
(*                                                                         *)
(* JavaScript runs every callback to its next await of an external call,    *)
(* so one action is one such run: the synchronous code together with the    *)
(* promise continuations that follow it without an external response.       *)
(***************************************************************************)
EXTENDS Integers, Sequences, FiniteSets, TLC

(***************************************************************************)
(* Bounds of the model.                                                    *)
(***************************************************************************)
\* ScheduledTask objects ever created by cron.schedule
MaxTasks == 2
\* orchestrator invocations ever started
MaxInv == 2
\* largest contribution count the provider reports for one day
MaxCount == 2
\* Date.now() at construction, in ms: 23:00 of day 0
StartTime == 82800000
\* the clock is observed every half hour
Tick == 1800000
\* the clock of the cron triggers: from 20:30 of day 0 to 21:30 of day 1
CronStart == 73800000
CronMaxNow == 163800000
\* the clock of the cache: from 22:00 of day 0
TtlStart == 79200000
\* last instant of the model: 00:30 of day 1
MaxNow == 88200000
\* the instants at which the query window is computed: from 00:00 UTC of
\* day 1 to 00:00 UTC of day 4, every hour
ZoneStart == 86400000
ZoneMaxNow == 345600000
\* the cache is observed every half hour from ZoneStart to 14:00 UTC of day 1
ZoneCacheMaxNow == 136800000

(***************************************************************************)
(* Program constants.                                                      *)
(***************************************************************************)
CACHE_TTL == 1000 * 60 * 60

\* length of the day of Date.toDateString(), in ms
DAY_MS == 24 * 60 * 60 * 1000

\* an optional field of NotificationResult that is not set
Absent == "<absent>"

ReasonAlreadyContributed == "User has already contributed today"
ReasonSendFailed == "Failed to send email"
ReasonException == "Exception occurred during check"
ReasonTestSent == "Test notification sent"
ReasonTestFailed == "Failed to send test notification"

\* new Error('Unknown error')
UnknownError == "Error: Unknown error"

\* what the contribution provider (octokit graphql) throws: Error instances
CheckErrors == {"Error: network failure", "Error: Bad credentials"}

\* error instanceof Error
instanceofError(e) == e \in CheckErrors \cup {UnknownError}

\* the environment variables validateConfig requires
Required ==
  {"GITHUB_TOKEN", "GITHUB_USERNAME", "RESEND_API_KEY", "EMAIL_FROM", "EMAIL_TO"}

\* the process has not exited
NoExit == -1

\* process.env[key]: a value, the empty string, or undefined
EnvValues == {"value", "", Absent}

Signals == {"SIGINT", "SIGTERM"}

\* what resend.emails.send answers: {data}, {error}, or a rejection
SendResponses == {"accepted", "errorObject", "throws"}

VARIABLES
  jobs,           \* ReminderScheduler.jobs: the registered tasks, in push order
  tasks,          \* every ScheduledTask cron.schedule has created
  invs,           \* every invocation of an entry point of NotificationService
  cache,          \* GitHubService.cache
  now,            \* Date.now()
  contributions,  \* the provider's totalContributions of each calendar day
  outdated,       \* the cache keys whose day got a contribution after the fetch
  process         \* the Node process: its status, exit code, environment, events

vars == <<jobs, tasks, invs, cache, now, contributions, outdated, process>>

Range(s) == { s[k] : k \in 1..Len(s) }

\* new Date().toDateString(): the calendar day of an instant
toDateString(t) == t \div DAY_MS

Days == toDateString(StartTime)..toDateString(MaxNow)

\* the locals of getContributionCount outside a pending query
NoKey == -1

\* getContributionCount has not returned a count
NoCount == -1

\* the invocation was not made by a trigger at an instant of the clock
NoInstant == -1

\* the result of an invocation that has not returned
NoOutcome == [sent |-> FALSE, reason |-> "<pending>", error |-> Absent]

(***************************************************************************)
(* GitHubService                                                           *)
(***************************************************************************)
cacheHit_inclusive(c, key, t) ==
  /\ key \in DOMAIN c
  /\ t - c[key].timestamp <= CACHE_TTL

\* cache.get(cacheKey) is there and younger than the time-to-live
cacheHit(c, key, t) ==
  /\ key \in DOMAIN c
  /\ t - c[key].timestamp < CACHE_TTL

cacheSet_dropsCount(c, key, count, t) ==
  [k \in DOMAIN c \cup {key} |->
     IF k = key THEN [contributions |-> 0, timestamp |-> t] ELSE c[k]]

cacheSet_forgetsOthers(c, key, count, t) ==
  [k \in {key} |-> [contributions |-> count, timestamp |-> t]]

cacheSet(c, key, count, t) ==
  [k \in DOMAIN c \cup {key} |->
     IF k = key THEN [contributions |-> count, timestamp |-> t] ELSE c[k]]

\* the catch block of getContributionCount: the failure is logged and thrown
\* again
catchGetContributionCount(e) == [threw |-> TRUE, error |-> e, value |-> FALSE]

catchHasContributionToday_answersFalse(e) ==
  [threw |-> FALSE, error |-> Absent, value |-> FALSE]

\* the catch block of hasContributionToday: the failure is logged and thrown
\* again
catchHasContributionToday(e) == [threw |-> TRUE, error |-> e, value |-> FALSE]

cleanCache_keepsAll(c, t) == c

cleanCache(c, t) ==
  [k \in { x \in DOMAIN c : ~(t - c[x].timestamp > CACHE_TTL) } |-> c[k]]

hasContributionToday_offByOne(count) == count > 1

\* hasContributionToday: the count it got from getContributionCount, as a boolean
hasContributionToday(count) == count > 0

(***************************************************************************)
(* EmailService                                                            *)
(***************************************************************************)
\* resend.emails.send resolved with data and no error: the provider took
\* the message
resendAccepted(response) == response = "accepted"

\* sendReminder: true when the provider accepted, false for an error object
\* (thrown and caught) and for a rejection (caught)
sendReminder_ignoresErrorObject(response) == response # "throws"

sendReminder(response) == response = "accepted"

(***************************************************************************)
(* NotificationService                                                     *)
(***************************************************************************)
\* the callback cron.schedule runs, once its call of checkAndNotify settled:
\* scheduleReminder logs the result or catches, scheduleCustom only awaits
\* (origin 0 is a direct call: no trigger callback runs)
triggerCallback(inv, threw) ==
  IF inv.origin = 0 THEN "none"
  ELSE IF tasks[inv.origin].kind = "reminder"
    THEN (IF threw THEN "caught" ELSE "logged")
    ELSE (IF threw THEN "rejected" ELSE "finished")

\* the entry point returns its NotificationResult to its caller
return(inv, outcome) ==
  [inv EXCEPT !.pc = "returned", !.outcome = outcome,
              !.callback = triggerCallback(inv, FALSE)]

catchCheckAndNotify_losesError(inv, e) ==
  return([inv EXCEPT !.thrown = e],
         [sent |-> FALSE, reason |-> ReasonException, error |-> UnknownError])

catchCheckAndNotify_rethrows(inv, e) ==
  [inv EXCEPT !.thrown = e, !.pc = "threw",
              !.callback = triggerCallback(inv, TRUE)]

\* the catch block of checkAndNotify
catchCheckAndNotify(inv, e) ==
  return([inv EXCEPT !.thrown = e],
         [sent |-> FALSE, reason |-> ReasonException,
          error |-> IF instanceofError(e) THEN e ELSE UnknownError])

afterCheck_sendsAnyway(inv, hasContributed) ==
  [inv EXCEPT !.log = Append(Append(@, IF hasContributed THEN "check.true"
                                                         ELSE "check.false"),
                             "send.call"),
              !.attempts = @ + 1,
              !.pc = "awaitSend"]

\* checkAndNotify from the return of hasContributionToday to its next await
afterCheck(inv, hasContributed) ==
  IF hasContributed
    THEN return([inv EXCEPT !.log = Append(@, "check.true")],
                [sent |-> FALSE, reason |-> ReasonAlreadyContributed,
                 error |-> Absent])
    ELSE [inv EXCEPT !.log = Append(Append(@, "check.false"), "send.call"),
                     !.attempts = @ + 1,
                     !.pc = "awaitSend"]

afterSend_retries(inv, emailSent) ==
  IF emailSent
    THEN return([inv EXCEPT !.log = Append(@, "send.true")],
                [sent |-> TRUE, reason |-> Absent, error |-> Absent])
    ELSE IF Len(inv.log) < 6
      THEN [inv EXCEPT !.log = Append(Append(@, "send.false"), "send.call"),
                       !.attempts = @ + 1]
      ELSE return([inv EXCEPT !.log = Append(@, "send.false")],
                  [sent |-> FALSE, reason |-> ReasonSendFailed, error |-> Absent])

afterSend_awaitsRetry(inv, emailSent) ==
  IF emailSent
    THEN return([inv EXCEPT !.log = Append(@, "send.true")],
                [sent |-> TRUE, reason |-> Absent, error |-> Absent])
    ELSE [inv EXCEPT !.log = Append(@, "send.false"), !.pc = "awaitRetry"]

afterSend_reasonOfCheck(inv, emailSent) ==
  IF emailSent
    THEN return([inv EXCEPT !.log = Append(@, "send.true")],
                [sent |-> TRUE, reason |-> Absent, error |-> Absent])
    ELSE return([inv EXCEPT !.log = Append(@, "send.false")],
                [sent |-> FALSE, reason |-> ReasonAlreadyContributed,
                 error |-> Absent])

afterSend_noReason(inv, emailSent) ==
  return([inv EXCEPT !.log = Append(@, IF emailSent THEN "send.true" ELSE "send.false")],
         [sent |-> emailSent, reason |-> Absent, error |-> Absent])

\* checkAndNotify from the return of sendReminder
afterSend(inv, emailSent) ==
  IF emailSent
    THEN return([inv EXCEPT !.log = Append(@, "send.true")],
                [sent |-> TRUE, reason |-> Absent, error |-> Absent])
    ELSE return([inv EXCEPT !.log = Append(@, "send.false")],
                [sent |-> FALSE, reason |-> ReasonSendFailed, error |-> Absent])

afterTestSend_noReason(inv, emailSent) ==
  return([inv EXCEPT !.log = Append(@, IF emailSent THEN "send.true" ELSE "send.false")],
         [sent |-> emailSent, reason |-> Absent, error |-> Absent])

\* testNotification from the return of sendReminder
afterTestSend(inv, emailSent) ==
  return([inv EXCEPT !.log = Append(@, IF emailSent THEN "send.true" ELSE "send.false")],
         [sent |-> emailSent,
          reason |-> IF emailSent THEN ReasonTestSent ELSE ReasonTestFailed,
          error |-> Absent])

checkAndNotify_sendsInParallel(origin) ==
  [origin |-> origin, entry |-> "checkAndNotify", pc |-> "awaitCheck",
   cacheKey |-> toDateString(now), window |-> toDateString(now),
   count |-> NoCount, thrown |-> Absent, log |-> <<"check.call", "send.call">>,
   providerError |-> Absent, age |-> 0,
   attempts |-> 1, answers |-> 0, accepted |-> FALSE,
   firedAt |-> NoInstant,
   outcome |-> NoOutcome, callback |-> "pending"]

\* checkAndNotify from its call to the first await that needs the provider:
\* getContributionCount answers from the cache, or queries the provider
checkAndNotify(origin) ==
  LET key == toDateString(now)
      inv == [origin |-> origin, entry |-> "checkAndNotify", pc |-> "awaitCheck",
              cacheKey |-> key, window |-> toDateString(now),
              count |-> NoCount, thrown |-> Absent, log |-> <<"check.call">>,
              providerError |-> Absent, age |-> 0,
              attempts |-> 0, answers |-> 0, accepted |-> FALSE,
              firedAt |-> NoInstant,
              outcome |-> NoOutcome, callback |-> "pending"]
  IN  IF cacheHit(cache, key, now)
        THEN afterCheck([inv EXCEPT !.count = cache[key].contributions,
                                    !.cacheKey = NoKey, !.window = NoKey,
                                    !.age = now - cache[key].timestamp],
                        hasContributionToday(cache[key].contributions))
        ELSE inv

(***************************************************************************)
(* ReminderScheduler                                                       *)
(***************************************************************************)
getActiveJobCount == Len(jobs)

\* the time start() hands to scheduleReminder, after time.split(':')
ReminderTime == [hour |-> 21, minute |-> 0]

\* `${minute} ${hour} * * *`: the minutes and the hours the expression matches
cronExpression(time) == [minutes |-> {time.minute}, hours |-> {time.hour}]

\* a cron expression scheduleCustom can be given: "0,30 21 * * *"
CustomExpressions == { [minutes |-> {0, 30}, hours |-> {21}] }

\* this.timezone of the scheduler: the constructor's default, which main()
\* also passes when TIMEZONE is not set
timezone == "America/New_York"

\* the task cron.schedule(expression, callback, {timezone}) returns
task(kind, expression) ==
  [kind |-> kind, cron |-> expression, timezone |-> timezone, stopped |-> FALSE]

\* cron.schedule(...) followed by this.jobs.push(job)
schedule(kind, expression) ==
  /\ Len(tasks) < MaxTasks
  /\ tasks' = Append(tasks, task(kind, expression))
  /\ jobs' = Append(jobs, Len(tasks) + 1)
  /\ UNCHANGED <<invs, cache, now, contributions, outdated, process>>

start_twoReminders ==
  /\ Len(tasks) + 2 <= MaxTasks
  /\ tasks' = tasks \o <<task("reminder", cronExpression([hour |-> 20, minute |-> 0])),
                         task("reminder", cronExpression([hour |-> 23, minute |-> 0]))>>
  /\ jobs' = jobs \o <<Len(tasks) + 1, Len(tasks) + 2>>
  /\ UNCHANGED <<invs, cache, now, contributions, outdated, process>>

start_onlyOnce ==
  /\ jobs = <<>>
  /\ schedule("reminder", cronExpression(ReminderTime))

\* start(): scheduleReminder('21:00', '9 PM EST')
start == schedule("reminder", cronExpression(ReminderTime))

scheduleCustom_replaces ==
  /\ Len(tasks) < MaxTasks
  /\ \E expression \in CustomExpressions :
       tasks' = Append(tasks, task("custom", expression))
  /\ jobs' = <<Len(tasks) + 1>>
  /\ UNCHANGED <<invs, cache, now, contributions, outdated, process>>

\* scheduleCustom(cronExpression, description): one more job, no limit
scheduleCustom ==
  \E expression \in CustomExpressions : schedule("custom", expression)

stop_forgetsJobStop ==
  /\ jobs' = <<>>
  /\ UNCHANGED <<tasks, invs, cache, now, contributions, outdated, process>>

stop_cancelsInFlight ==
  /\ tasks' = [t \in 1..Len(tasks) |->
                 IF t \in Range(jobs) THEN [tasks[t] EXCEPT !.stopped = TRUE]
                                      ELSE tasks[t]]
  /\ jobs' = <<>>
  /\ invs' = [i \in 1..Len(invs) |->
                IF invs[i].origin \in Range(jobs)
                   /\ invs[i].pc \in {"awaitCheck", "awaitSend"}
                  THEN [invs[i] EXCEPT !.pc = "cancelled"]
                  ELSE invs[i]]
  /\ UNCHANGED <<cache, now, contributions, outdated, process>>

stop_requiresJobs ==
  /\ jobs # <<>>
  /\ tasks' = [t \in 1..Len(tasks) |->
                 IF t \in Range(jobs) THEN [tasks[t] EXCEPT !.stopped = TRUE]
                                      ELSE tasks[t]]
  /\ jobs' = <<>>
  /\ UNCHANGED <<invs, cache, now, contributions, outdated, process>>

\* stop(): job.stop() for every job of this.jobs, then this.jobs = []
stop ==
  /\ tasks' = [t \in 1..Len(tasks) |->
                 IF t \in Range(jobs) THEN [tasks[t] EXCEPT !.stopped = TRUE]
                                      ELSE tasks[t]]
  /\ jobs' = <<>>
  /\ UNCHANGED <<invs, cache, now, contributions, outdated, process>>

Fire_skipsWhileBusy(t) ==
  /\ t \in 1..Len(tasks)
  /\ ~tasks[t].stopped
  /\ Len(invs) < MaxInv
  /\ \A i \in 1..Len(invs) : invs[i].pc \notin {"awaitCheck", "awaitSend"}
  /\ invs' = Append(invs, checkAndNotify(t))
  /\ UNCHANGED <<jobs, tasks, cache, now, contributions, outdated, process>>

\* node-cron runs the callback of a task that has not been stopped
Fire(t) ==
  /\ t \in 1..Len(tasks)
  /\ ~tasks[t].stopped
  /\ Len(invs) < MaxInv
  /\ invs' = Append(invs, checkAndNotify(t))
  /\ UNCHANGED <<jobs, tasks, cache, now, contributions, outdated, process>>

\* the minute and the hour of the local time t
minuteOf(t) == ((t % DAY_MS) \div 60000) % 60

hourOf(t) == (t % DAY_MS) \div 3600000

\* the expression of a task matches the minute of t
Matches(expression, t) ==
  /\ minuteOf(t) \in expression.minutes
  /\ hourOf(t) \in expression.hours

fired(t, instant) ==
  \E i \in 1..Len(invs) : invs[i].origin = t /\ invs[i].firedAt = instant

due_untilSent(t, instant) ==
  /\ ~tasks[t].stopped
  /\ Matches(tasks[t].cron, instant)
  /\ ~\E i \in 1..Len(invs) : invs[i].origin = t /\ invs[i].outcome.sent

\* node-cron runs the callback of a task at the instants its expression
\* matches, until the task is stopped
due(t, instant) ==
  /\ ~tasks[t].stopped
  /\ Matches(tasks[t].cron, instant)

\* node-cron runs the callback of task t at the instant now
CronFire(t) ==
  /\ t \in 1..Len(tasks)
  /\ due(t, now)
  /\ ~fired(t, now)
  /\ Len(invs) < MaxInv
  /\ invs' = Append(invs, [checkAndNotify(t) EXCEPT !.firedAt = now])
  /\ UNCHANGED <<jobs, tasks, cache, now, contributions, outdated, process>>

\* the instant after t: half an hour later in the evening, the next evening
\* after 22:00 (no expression of the model matches during the night)
nextInstant(t) == IF hourOf(t) < 22 THEN t + Tick ELSE t + (DAY_MS - 3 * Tick)

\* the clock reaches the next instant once the callbacks due now have run
CronElapse ==
  /\ nextInstant(now) <= CronMaxNow
  /\ \A t \in 1..Len(tasks) : due(t, now) => fired(t, now)
  /\ now' = nextInstant(now)
  /\ UNCHANGED <<jobs, tasks, invs, cache, contributions, outdated, process>>

\* a direct call of testNotification(): sendReminder is awaited at once
testNotification_checksFirst ==
  /\ Len(invs) < MaxInv
  /\ invs' = Append(invs, [checkAndNotify(0) EXCEPT !.entry = "testNotification"])
  /\ UNCHANGED <<jobs, tasks, cache, now, contributions, outdated, process>>

testNotification ==
  /\ Len(invs) < MaxInv
  /\ invs' = Append(invs,
       [origin |-> 0, entry |-> "testNotification", pc |-> "awaitSend",
        cacheKey |-> NoKey, window |-> NoKey,
        count |-> NoCount, thrown |-> Absent, log |-> <<"send.call">>,
        providerError |-> Absent, age |-> 0,
        attempts |-> 1, answers |-> 0, accepted |-> FALSE,
              firedAt |-> NoInstant,
        outcome |-> NoOutcome, callback |-> "pending"])
  /\ UNCHANGED <<jobs, tasks, cache, now, contributions, outdated, process>>

(***************************************************************************)
(* index.ts: the process                                                   *)
(***************************************************************************)
validateConfig_forgetsEmailTo(env) ==
  LET missing == { key \in Required \ {"EMAIL_TO"} : env[key] \in {"", Absent} }
  IN  [threw |-> missing # {}, missing |-> missing]

\* validateConfig(): throws when process.env[key] is falsy for a required key
validateConfig(env) ==
  LET missing == { key \in Required : env[key] \in {"", Absent} }
  IN  [threw |-> missing # {}, missing |-> missing]

\* process.exit(code) after logger.error/info(message)
exit(code, message) ==
  [process EXCEPT !.status = "exited", !.exitCode = code,
                  !.logged = @ \cup {message}]

\* main(): validateConfig(), the services, scheduler.start(),
\* setupGracefulShutdown(scheduler); its catch block exits with code 1
main ==
  /\ process.status = "loaded"
  /\ IF validateConfig(process.env).threw
       THEN /\ process' = exit(1, "Failed to start application")
            /\ UNCHANGED <<jobs, tasks>>
       ELSE /\ tasks' = Append(tasks, task("reminder", cronExpression(ReminderTime)))
            /\ jobs' = Append(jobs, Len(tasks) + 1)
            /\ process' = [process EXCEPT !.status = "running"]
  /\ UNCHANGED <<invs, cache, now, contributions, outdated>>

testNow_startsScheduler ==
  /\ process.status = "loaded"
  /\ process.env["RESEND_API_KEY"] \notin {"", Absent}
  /\ tasks' = Append(tasks, task("reminder", cronExpression(ReminderTime)))
  /\ jobs' = Append(jobs, Len(tasks) + 1)
  /\ invs' = Append(invs, checkAndNotify(0))
  /\ process' = [process EXCEPT !.status = "testing"]
  /\ UNCHANGED <<cache, now, contributions, outdated>>

\* test-now.ts, testNow() to its await: the configuration is read without
\* validation, the three services are constructed (no ReminderScheduler) and
\* checkAndNotify() is called once. The mail client needs its API key to be
\* constructed.
testNow ==
  /\ process.status = "loaded"
  /\ process.env["RESEND_API_KEY"] \notin {"", Absent}
  /\ invs' = Append(invs, checkAndNotify(0))
  /\ process' = [process EXCEPT !.status = "testing"]
  /\ UNCHANGED <<jobs, tasks, cache, now, contributions, outdated>>

\* testNow() after its await: logs the result; nothing is left to run and the
\* process ends
testNowReturns ==
  /\ process.status = "testing"
  /\ \A i \in 1..Len(invs) : invs[i].pc = "returned"
  /\ process' = exit(0, "Test complete")
  /\ UNCHANGED <<jobs, tasks, invs, cache, now, contributions, outdated>>

shutdown_awaitsInvocations(signal) ==
  /\ process.status = "running"
  /\ \A i \in 1..Len(invs) : invs[i].pc = "returned"
  /\ tasks' = [t \in 1..Len(tasks) |->
                 IF t \in Range(jobs) THEN [tasks[t] EXCEPT !.stopped = TRUE]
                                      ELSE tasks[t]]
  /\ jobs' = <<>>
  /\ process' = exit(0, signal)
  /\ UNCHANGED <<invs, cache, now, contributions, outdated>>

shutdown_exitsAtOnce(signal) ==
  /\ process.status = "running"
  /\ process' = exit(0, signal)
  /\ UNCHANGED <<jobs, tasks, invs, cache, now, contributions, outdated>>

\* the handler of SIGINT and SIGTERM: scheduler.stop(), then process.exit(0)
shutdown(signal) ==
  /\ process.status = "running"
  /\ tasks' = [t \in 1..Len(tasks) |->
                 IF t \in Range(jobs) THEN [tasks[t] EXCEPT !.stopped = TRUE]
                                      ELSE tasks[t]]
  /\ jobs' = <<>>
  /\ process' = exit(0, signal)
  /\ UNCHANGED <<invs, cache, now, contributions, outdated>>

uncaughtException_onlyLogs ==
  /\ process.status = "running"
  /\ process' = [process EXCEPT !.logged = @ \cup {"Uncaught exception"}]
  /\ UNCHANGED <<jobs, tasks, invs, cache, now, contributions, outdated>>

\* the handler of 'uncaughtException': logs and calls process.exit(1)
uncaughtException ==
  /\ process.status = "running"
  /\ process' = exit(1, "Uncaught exception")
  /\ UNCHANGED <<jobs, tasks, invs, cache, now, contributions, outdated>>

\* the handler of 'unhandledRejection': logs
unhandledRejection ==
  /\ process.status = "running"
  /\ process' = [process EXCEPT !.logged = @ \cup {"Unhandled promise rejection"}]
  /\ UNCHANGED <<jobs, tasks, invs, cache, now, contributions, outdated>>

(***************************************************************************)
(* The external providers answer.                                          *)
(***************************************************************************)
\* the contribution provider answers the query of invocation i: the count is
\* cached under the key computed before the query, the cache is swept, and
\* checkAndNotify goes on
CheckResponds(i) ==
  /\ i \in 1..Len(invs)
  /\ invs[i].pc = "awaitCheck"
  /\ LET c == contributions[invs[i].window]
     IN  /\ cache' = cleanCache(cacheSet(cache, invs[i].cacheKey, c, now), now)
         /\ outdated' = (outdated \ {invs[i].cacheKey}) \cap DOMAIN cache'
         /\ invs' = [invs EXCEPT ![i] =
                       afterCheck([@ EXCEPT !.count = c, !.cacheKey = NoKey,
                                            !.window = NoKey],
                                  hasContributionToday(c))]
  /\ UNCHANGED <<jobs, tasks, now, contributions, process>>

CheckFails_disablesTrigger(i, e) ==
  /\ i \in 1..Len(invs)
  /\ invs[i].pc = "awaitCheck"
  /\ invs' = [invs EXCEPT ![i] =
                catchCheckAndNotify([@ EXCEPT !.log = Append(@, "check.throw"),
                                              !.cacheKey = NoKey, !.window = NoKey,
                                              !.providerError = e], e)]
  /\ tasks' = [t \in 1..Len(tasks) |->
                 IF t = invs[i].origin THEN [tasks[t] EXCEPT !.stopped = TRUE]
                                       ELSE tasks[t]]
  /\ UNCHANGED <<jobs, cache, now, contributions, outdated, process>>

CheckFails_cachesZero(i, e) ==
  /\ i \in 1..Len(invs)
  /\ invs[i].pc = "awaitCheck"
  /\ invs' = [invs EXCEPT ![i] =
                LET failed == [@ EXCEPT !.cacheKey = NoKey, !.window = NoKey,
                                        !.providerError = e]
                    answer == catchHasContributionToday(
                                catchGetContributionCount(e).error)
                IN  IF answer.threw
                      THEN catchCheckAndNotify(
                             [failed EXCEPT !.log = Append(@, "check.throw")],
                             answer.error)
                      ELSE afterCheck(failed, answer.value)]
  /\ cache' = cacheSet(cache, invs[i].cacheKey, 0, now)
  /\ UNCHANGED <<jobs, tasks, now, contributions, outdated, process>>

\* the query fails: getContributionCount and hasContributionToday rethrow
CheckFails(i, e) ==
  /\ i \in 1..Len(invs)
  /\ invs[i].pc = "awaitCheck"
  /\ invs' = [invs EXCEPT ![i] =
                LET failed == [@ EXCEPT !.cacheKey = NoKey, !.window = NoKey,
                                        !.providerError = e]
                    answer == catchHasContributionToday(
                                catchGetContributionCount(e).error)
                IN  IF answer.threw
                      THEN catchCheckAndNotify(
                             [failed EXCEPT !.log = Append(@, "check.throw")],
                             answer.error)
                      ELSE afterCheck(failed, answer.value)]
  /\ UNCHANGED <<jobs, tasks, cache, now, contributions, outdated, process>>

SendResponds_retriesOnce(i, response) ==
  /\ i \in 1..Len(invs)
  /\ invs[i].pc = "awaitSend"
  /\ invs' = [invs EXCEPT ![i] =
                LET answered == [@ EXCEPT !.answers = @ + 1,
                                          !.accepted = resendAccepted(response)]
                IN  IF ~sendReminder(response) /\ @.attempts < 2
                      THEN [answered EXCEPT !.attempts = @ + 1]
                    ELSE IF @.entry = "checkAndNotify"
                      THEN afterSend(answered, sendReminder(response))
                      ELSE afterTestSend(answered, sendReminder(response))]
  /\ UNCHANGED <<jobs, tasks, cache, now, contributions, outdated, process>>

\* the delivery provider answers the send of invocation i
SendResponds(i, response) ==
  /\ i \in 1..Len(invs)
  /\ invs[i].pc = "awaitSend"
  /\ invs' = [invs EXCEPT ![i] =
                LET answered == [@ EXCEPT !.answers = @ + 1,
                                          !.accepted = resendAccepted(response)]
                IN  IF @.entry = "checkAndNotify"
                      THEN afterSend(answered, sendReminder(response))
                      ELSE afterTestSend(answered, sendReminder(response))]
  /\ UNCHANGED <<jobs, tasks, cache, now, contributions, outdated, process>>

(***************************************************************************)
(* The environment.                                                        *)
(***************************************************************************)
AdvanceTime ==
  /\ now + Tick <= MaxNow
  /\ now' = now + Tick
  /\ UNCHANGED <<jobs, tasks, invs, cache, contributions, outdated, process>>

\* the subject contributes today
Contribute ==
  /\ contributions[toDateString(now)] < MaxCount
  /\ contributions' = [contributions EXCEPT ![toDateString(now)] = @ + 1]
  /\ outdated' = outdated \cup ({toDateString(now)} \cap DOMAIN cache)
  /\ UNCHANGED <<jobs, tasks, invs, cache, now, process>>

\* the process once main() has validated the configuration and set up the
\* signal handlers
Running ==
  [status |-> "running", exitCode |-> NoExit,
   env |-> [k \in Required |-> "value"], logged |-> {}]

Init ==
  /\ jobs = <<>>
  /\ tasks = <<>>
  /\ invs = <<>>
  /\ cache = [k \in {} |-> [contributions |-> 0, timestamp |-> 0]]
  /\ now = StartTime
  /\ contributions = [d \in Days |-> 0]
  /\ outdated = {}
  /\ process = Running

\* every external call that was issued is answered, with success or failure
Responds(i) ==
  \/ CheckResponds(i)
  \/ \E e \in CheckErrors : CheckFails(i, e)
  \/ \E r \in SendResponses : SendResponds(i, r)

\* the calls of the program's entry points, the firings and the answers
Program ==
  \/ start
  \/ scheduleCustom
  \/ stop
  \/ \E t \in 1..MaxTasks : Fire(t)
  \/ testNotification
  \/ \E i \in 1..MaxInv : Responds(i)

Next ==
  \/ Program
  \/ Contribute

\* the scheduler, the orchestrator and the providers within one reading of
\* the clock
Spec == Init /\ [][Next]_vars

\* the same with the clock advancing
TimedNext == Next \/ AdvanceTime

TimedSpec == Init /\ [][TimedNext]_vars

\* the started scheduler over the hours before and after midnight
TtlInit ==
  /\ jobs = <<>>
  /\ tasks = <<>>
  /\ invs = <<>>
  /\ cache = [k \in {} |-> [contributions |-> 0, timestamp |-> 0]]
  /\ now = TtlStart
  /\ contributions = [d \in Days |-> 0]
  /\ outdated = {}
  /\ process = Running

\* the trigger, the contribution provider and the subject while the clock
\* advances; the delivery provider accepts every reminder
TtlNext ==
  \/ start
  \/ \E t \in 1..MaxTasks : Fire(t)
  \/ \E i \in 1..MaxInv : CheckResponds(i)
  \/ \E i \in 1..MaxInv : \E e \in CheckErrors : CheckFails(i, e)
  \/ \E i \in 1..MaxInv : SendResponds(i, "accepted")
  \/ Contribute
  \/ AdvanceTime

TtlSpec == TtlInit /\ [][TtlNext]_vars

\* the process when node has loaded index.ts, with any environment
MainInit ==
  /\ jobs = <<>>
  /\ tasks = <<>>
  /\ invs = <<>>
  /\ cache = [k \in {} |-> [contributions |-> 0, timestamp |-> 0]]
  /\ now = StartTime
  /\ \E c \in 0..MaxCount :
       contributions = [d \in Days |-> IF d = toDateString(StartTime) THEN c ELSE 0]
  /\ outdated = {}
  /\ \E env \in [Required -> EnvValues] :
       process = [status |-> "loaded", exitCode |-> NoExit, env |-> env,
                  logged |-> {}]

\* the event loop serves the triggers and the providers' answers while the
\* process lives
Serve ==
  /\ process.status = "running"
  /\ \/ \E t \in 1..MaxTasks : Fire(t)
     \/ \E i \in 1..MaxInv : Responds(i)

MainNext ==
  \/ main
  \/ \E signal \in Signals : shutdown(signal)
  \/ uncaughtException
  \/ unhandledRejection
  \/ Serve

MainSpec == MainInit /\ [][MainNext]_vars

\* the process of test-now.ts: one immediate check, answered in any way
TestNowNext ==
  \/ testNow
  \/ process.status = "testing" /\ \E i \in 1..MaxInv : Responds(i)
  \/ testNowReturns
  \/ Contribute

TestNowSpec == MainInit /\ [][TestNowNext]_vars

\* the scheduler half an hour before its reminder time
CronInit ==
  /\ jobs = <<>>
  /\ tasks = <<>>
  /\ invs = <<>>
  /\ cache = [k \in {} |-> [contributions |-> 0, timestamp |-> 0]]
  /\ now = CronStart
  /\ \E c \in 0..MaxCount :
       contributions = [d \in Days |-> IF d = toDateString(CronStart) THEN c ELSE 0]
  /\ outdated = {}
  /\ process = Running

\* the triggers are registered when the process starts, then the clock runs
CronNext ==
  \/ now = CronStart /\ start
  \/ now = CronStart /\ scheduleCustom
  \/ \E t \in 1..MaxTasks : CronFire(t)
  \/ \E i \in 1..MaxInv : Responds(i)
  \/ CronElapse

CronSpec == CronInit /\ [][CronNext]_vars

\* the scheduler's operations with its triggers firing; the contribution
\* query always answers, the mail provider answers in any of its ways
SchedulerNext ==
  \/ start
  \/ scheduleCustom
  \/ stop
  \/ testNotification
  \/ \E t \in 1..MaxTasks : Fire(t)
  \/ \E i \in 1..MaxInv : CheckResponds(i)
  \/ \E i \in 1..MaxInv : \E response \in SendResponses : SendResponds(i, response)
  \/ Contribute

SchedulerSpec == Init /\ [][SchedulerNext]_vars

(***************************************************************************)
(* The window of the contribution query. A Date is its instant in ms; its  *)
(* local fields are read and set in the timezone of the process (TZ).      *)
(***************************************************************************)
HOUR_MS == 60 * 60 * 1000

Zones == {"UTC", "America/New_York", "Australia/Sydney"}

\* New York leaves winter time on day 2 at 02:00 local, Sydney leaves summer
\* time on day 2 at 03:00 local
NewYorkSpringForward == 2 * DAY_MS + 7 * HOUR_MS

SydneyFallBack == 2 * DAY_MS - 8 * HOUR_MS

\* local time minus UTC of a zone at an instant
utcOffset(zone, t) ==
  CASE zone = "UTC" -> 0
    [] zone = "America/New_York" ->
         IF t < NewYorkSpringForward THEN 0 - 5 * HOUR_MS ELSE 0 - 4 * HOUR_MS
    [] zone = "Australia/Sydney" ->
         IF t < SydneyFallBack THEN 11 * HOUR_MS ELSE 10 * HOUR_MS

utcOffsets(zone) ==
  CASE zone = "UTC" -> {0}
    [] zone = "America/New_York" -> {0 - 5 * HOUR_MS, 0 - 4 * HOUR_MS}
    [] zone = "Australia/Sydney" -> {11 * HOUR_MS, 10 * HOUR_MS}

Least(S) == CHOOSE x \in S : \A y \in S : x <= y

\* the wall clock a zone shows at an instant
wallClock(zone, t) == t + utcOffset(zone, t)

\* the instant at which a zone shows a wall clock: the earlier one when the
\* wall clock occurs twice, the offset before the transition when the wall
\* clock is skipped (Date's local setters)
instantOf(zone, wall) ==
  LET candidates == { t \in { wall - o : o \in utcOffsets(zone) } :
                        wallClock(zone, t) = wall }
  IN  IF candidates # {} THEN Least(candidates)
                         ELSE wall - Least(utcOffsets(zone))

\* toZonedTime(date, timeZone): a Date whose local fields, in the process's
\* zone, show the wall clock of timeZone at date
toZonedTime(date, timeZone, tz) == instantOf(tz, wallClock(timeZone, date))

\* startOfDay(date): setHours(0, 0, 0, 0) on the local fields
startOfDay(date, tz) ==
  LET local == wallClock(tz, date)
  IN  instantOf(tz, local - (local % DAY_MS))

\* endOfDay(date): setHours(23, 59, 59, 999) on the local fields
endOfDay(date, tz) ==
  LET local == wallClock(tz, date)
  IN  instantOf(tz, local - (local % DAY_MS) + DAY_MS - 1)

\* Date.toISOString(): the UTC calendar day and the time of that day
toISOString(date) == [day |-> date \div DAY_MS, time |-> date % DAY_MS]

\* getContributionCount: the variables of the query it sends
getContributionCount(at, timeZone, tz) ==
  LET zonedDate == toZonedTime(at, timeZone, tz)
      dayStart == startOfDay(zonedDate, tz)
      dayEnd == endOfDay(zonedDate, tz)
  IN  [at |-> at, timezone |-> timeZone,
       from |-> toISOString(dayStart), to |-> toISOString(dayEnd)]

\* a process in zone TZ, configured with TIMEZONE
ZoneInit ==
  /\ jobs = <<>>
  /\ tasks = <<>>
  /\ invs = <<>>
  /\ cache = [k \in {} |-> [contributions |-> 0, timestamp |-> 0]]
  /\ now = ZoneStart
  /\ contributions = [d \in Days |-> 0]
  /\ outdated = {}
  /\ \E tz \in Zones : \E timeZone \in Zones :
       process = [Running EXCEPT !.env =
                    [k \in Required \cup {"TZ", "TIMEZONE"} |->
                       CASE k = "TZ" -> tz
                         [] k = "TIMEZONE" -> timeZone
                         [] OTHER -> "value"]]

\* the query is sent for the instant now; invs keeps the last query
ZoneQuery ==
  /\ invs' = <<getContributionCount(now, process.env["TIMEZONE"], process.env["TZ"])>>
  /\ UNCHANGED <<jobs, tasks, cache, now, contributions, outdated, process>>

ZoneElapse ==
  /\ now + HOUR_MS <= ZoneMaxNow
  /\ now' = now + HOUR_MS
  /\ UNCHANGED <<jobs, tasks, invs, cache, contributions, outdated, process>>

ZoneNext == ZoneQuery \/ ZoneElapse

ZoneSpec == ZoneInit /\ [][ZoneNext]_vars

\* new Date().toDateString(): the calendar date the process's zone shows
localDateString(tz, t) == wallClock(tz, t) \div DAY_MS

\* getContributionCount with a provider that answers at once: a hit returns
\* the cached count, a miss stores the provider's count under the key and
\* sweeps the cache; invs keeps the last call with the instant its count was
\* obtained from the provider
ZoneLookup ==
  LET cacheKey == localDateString(process.env["TZ"], now)
      call == [at |-> now, timezone |-> process.env["TIMEZONE"]]
  IN  /\ IF cacheHit(cache, cacheKey, now)
           THEN /\ invs' = <<call @@ [hit |-> TRUE,
                                      obtainedAt |-> cache[cacheKey].timestamp]>>
                /\ cache' = cache
           ELSE /\ invs' = <<call @@ [hit |-> FALSE, obtainedAt |-> now]>>
                /\ cache' = cleanCache(cacheSet(cache, cacheKey, 0, now), now)
      /\ UNCHANGED <<jobs, tasks, now, contributions, outdated, process>>

ZoneTick ==
  /\ now + Tick <= ZoneCacheMaxNow
  /\ now' = now + Tick
  /\ UNCHANGED <<jobs, tasks, invs, cache, contributions, outdated, process>>

ZoneCacheNext == ZoneLookup \/ ZoneTick

ZoneCacheSpec == ZoneInit /\ [][ZoneCacheNext]_vars

\* the subject has any number of contributions today when the process starts
InitAnyCount ==
  /\ jobs = <<>>
  /\ tasks = <<>>
  /\ invs = <<>>
  /\ cache = [k \in {} |-> [contributions |-> 0, timestamp |-> 0]]
  /\ now = StartTime
  /\ \E c \in 0..MaxCount :
       contributions = [d \in Days |-> IF d = toDateString(StartTime) THEN c ELSE 0]
  /\ outdated = {}
  /\ process = Running

\* the program with a count that stays as it is, and providers that answer
\* every call that was issued
FairSpec ==
  /\ InitAnyCount
  /\ [][Program]_vars
  /\ \A i \in 1..MaxInv : WF_vars(Responds(i))

\* the triggers fire and every external call is answered, in any way
AnsweredNext ==
  \/ start
  \/ \E t \in 1..MaxTasks : Fire(t)
  \/ \E i \in 1..MaxInv : Responds(i)

AnsweredSpec ==
  /\ InitAnyCount
  /\ [][AnsweredNext]_vars
  /\ \A i \in 1..MaxInv : WF_vars(Responds(i))

(***************************************************************************)
(* Properties                                                              *)
(***************************************************************************)
Invocations == { invs[i] : i \in 1..Len(invs) }

\* the invocations of checkAndNotify
Orchestrations == { inv \in Invocations : inv.entry = "checkAndNotify" }

Occurrences(log, event) == Cardinality({ k \in 1..Len(log) : log[k] = event })

Logged(inv, event) == \E k \in 1..Len(inv.log) : inv.log[k] = event

\* C1: whenever checkAndNotify has called sendReminder, it had called
\* hasContributionToday before and that call had already returned false; no
\* send follows a check that returned true or threw, or precedes the answer.
CheckPrecedesSend ==
  \A inv \in Orchestrations :
    \A k \in 1..Len(inv.log) :
      inv.log[k] = "send.call" =>
        /\ k = 3
        /\ inv.log[1] = "check.call"
        /\ inv.log[2] = "check.false"
        /\ ~Logged(inv, "check.true")
        /\ ~Logged(inv, "check.throw")

WitnessCheckPrecedesSend ==
  \E inv \in Orchestrations : Logged(inv, "send.call")

\* C2: when the count obtained for today is 1 or more, hasContributionToday
\* returned true, sendReminder is not called, and checkAndNotify has returned
\* the already-contributed outcome, without an error.
ContributedMeansNoReminder ==
  \A inv \in Orchestrations :
    inv.count >= 1 =>
      /\ inv.log = <<"check.call", "check.true">>
      /\ inv.pc = "returned"
      /\ inv.outcome = [sent |-> FALSE, reason |-> ReasonAlreadyContributed,
                        error |-> Absent]

WitnessContributedMeansNoReminder ==
  /\ \E inv \in Orchestrations : inv.count = 1 /\ inv.pc = "returned"
  /\ \E inv \in Orchestrations : inv.count > 1 /\ inv.pc = "returned"

\* C3: when the count obtained for today is 0, checkAndNotify calls
\* sendReminder exactly once, and returns {sent: true} when that call
\* returned true.
ZeroMeansOneReminder ==
  \A inv \in Orchestrations :
    inv.count = 0 =>
      /\ Occurrences(inv.log, "send.call") = 1
      /\ Logged(inv, "send.true") =>
            /\ inv.pc = "returned"
            /\ inv.outcome = [sent |-> TRUE, reason |-> Absent, error |-> Absent]

WitnessZeroMeansOneReminder ==
  /\ \E inv \in Orchestrations : inv.count = 0 /\ Logged(inv, "send.true")
  /\ \E inv \in Orchestrations : inv.count = 0 /\ Logged(inv, "send.false")

\* C4: when hasContributionToday throws, checkAndNotify returns the
\* exception outcome carrying the error it caught, and sendReminder is not
\* called.
CheckFailureIsReported ==
  \A inv \in Orchestrations :
    inv.thrown # Absent =>
      /\ inv.log = <<"check.call", "check.throw">>
      /\ inv.pc = "returned"
      /\ inv.outcome = [sent |-> FALSE, reason |-> ReasonException,
                        error |-> inv.thrown]

WitnessCheckFailureIsReported ==
  \A e \in CheckErrors : \E inv \in Orchestrations : inv.thrown = e

\* C5: when the count is 0 and sendReminder returned false, checkAndNotify
\* returns the send-failed outcome and does not throw.
SendFailureIsReported ==
  \A inv \in Orchestrations :
    (inv.count = 0 /\ Logged(inv, "send.false")) =>
      /\ inv.pc = "returned"
      /\ inv.outcome = [sent |-> FALSE, reason |-> ReasonSendFailed,
                        error |-> Absent]

WitnessSendFailureIsReported ==
  \E inv \in Orchestrations :
    inv.count = 0 /\ Logged(inv, "send.false") /\ inv.pc = "returned"

\* the invariant of NotificationOutcome
OutcomeShape(outcome) ==
  /\ outcome.sent => (outcome.reason = Absent /\ outcome.error = Absent)
  /\ ~outcome.sent => outcome.reason # Absent

\* C6 as claimed: every outcome of checkAndNotify and of testNotification has
\* no reason and no error when sent, and a reason when not sent.
EveryOutcomeHasTheShape ==
  \A inv \in Invocations : inv.pc = "returned" => OutcomeShape(inv.outcome)

\* C6 as amended: every outcome of checkAndNotify has no reason and no error
\* when sent and a reason when not sent; every outcome of testNotification
\* has a reason, also when sent, and no error when sent.
OutcomeShapeByEntryPoint ==
  \A inv \in Invocations :
    inv.pc = "returned" =>
      IF inv.entry = "checkAndNotify"
        THEN OutcomeShape(inv.outcome)
        ELSE /\ inv.outcome.reason # Absent
             /\ inv.outcome.sent => inv.outcome.error = Absent

WitnessOutcomeShapeByEntryPoint ==
  /\ \E inv \in Invocations :
       inv.entry = "testNotification" /\ inv.pc = "returned" /\ inv.outcome.sent
  /\ \E inv \in Invocations :
       inv.entry = "testNotification" /\ inv.pc = "returned" /\ ~inv.outcome.sent

\* C7: no invocation of checkAndNotify throws into the trigger callback that
\* awaits it: after a failed check and after a failed send the callback got
\* an outcome, for the callbacks of scheduleReminder and of scheduleCustom.
CallbackNeverGetsAnError ==
  \A inv \in Orchestrations :
    /\ inv.pc # "threw"
    /\ inv.callback \notin {"caught", "rejected"}
    /\ (inv.thrown # Absent \/ Logged(inv, "send.false")) =>
          (inv.pc = "returned" /\ inv.outcome # NoOutcome)

WitnessCallbackNeverGetsAnError ==
  \E a, b \in Orchestrations :
    /\ a.callback = "logged" /\ b.callback = "finished"
    /\ a.thrown # Absent /\ Logged(b, "send.false")

\* the triggers that are registered and running
Registered == { t \in Range(jobs) : ~tasks[t].stopped }

\* C8: when stop() returns getActiveJobCount() is 0, and a trigger that is
\* not registered any more starts no invocation, however many triggers
\* there were.
StopSilencesTriggers ==
  [][ /\ stop => getActiveJobCount' = 0
      /\ Len(invs') > Len(invs) =>
            \/ invs'[Len(invs')].origin = 0
            \/ invs'[Len(invs')].origin \in Range(jobs) ]_vars

WitnessStopSilencesTriggers ==
  /\ Len(tasks) >= 2
  /\ getActiveJobCount = 0
  /\ \E inv \in Invocations : inv.origin # 0

Failed(inv) ==
  \/ inv.pc = "threw"
  \/ inv.pc = "returned" /\ ~inv.outcome.sent /\
       inv.outcome.reason \in {ReasonSendFailed, ReasonException}

\* C9: a step in which an invocation ends in failure (check failure, send
\* failure, or an error thrown into the trigger callback) changes neither the
\* registered triggers nor any ScheduledTask: its trigger and the other
\* triggers go on firing.
FailureKeepsTriggers ==
  [][ (\E i \in 1..Len(invs) : ~Failed(invs[i]) /\ Failed(invs'[i]))
        => (jobs' = jobs /\ tasks' = tasks) ]_vars

\* a trigger whose invocation failed is registered and has fired again
WitnessFailureKeepsTriggers ==
  \E i, j \in 1..Len(invs) :
    /\ i < j
    /\ Failed(invs[i])
    /\ invs[i].origin = invs[j].origin
    /\ invs[i].origin \in Registered
    /\ invs[j].log = <<"check.call">>

\* invocation i is awaiting a provider and its trigger has been stopped
InFlightWhenStopped(i) ==
  /\ i \in 1..Len(invs)
  /\ invs[i].pc \in {"awaitCheck", "awaitSend"}
  /\ invs[i].origin # 0
  /\ tasks[invs[i].origin].stopped

Completed(i) ==
  /\ i \in 1..Len(invs)
  /\ invs[i].pc = "returned"
  /\ invs[i].outcome # NoOutcome

\* C10: stop() leaves every invocation as it is; an invocation that is in
\* flight when its trigger is stopped does not stay in flight for ever, given
\* that the providers answer; and an invocation leaves the flight only by
\* returning its outcome.
StopDoesNotCancel ==
  /\ [][stop => invs' = invs]_vars
  /\ \A i \in 1..MaxInv : []<>(~InFlightWhenStopped(i))
  /\ [](\A i \in 1..Len(invs) :
          invs[i].pc \in {"awaitCheck", "awaitSend"} \/ Completed(i))

\* the trigger of an invocation was stopped while it awaits the check
WitnessStopDoesNotCancel ==
  \E i \in 1..Len(invs) :
    /\ InFlightWhenStopped(i)
    /\ invs[i].pc = "awaitCheck"

InFlight(i) ==
  /\ i \in 1..Len(invs)
  /\ invs[i].pc \in {"awaitCheck", "awaitSend"}

\* C11: there is no mutual exclusion between invocations of checkAndNotify:
\* a trigger that is not stopped can fire whatever invocations are in flight,
\* and every invocation that finds no cached count awaits the answer to its
\* own query of the provider, also while another invocation awaits one.
NoMutualExclusion ==
  /\ \A t \in 1..Len(tasks) :
       (~tasks[t].stopped /\ Len(invs) < MaxInv) => ENABLED Fire(t)
  /\ \A i \in 1..Len(invs) :
       invs[i].pc = "awaitCheck" =>
         invs[i].log = <<"check.call">> /\ invs[i].count = NoCount

WitnessNoMutualExclusion ==
  \E i, j \in 1..Len(invs) :
    /\ i < j
    /\ invs[i].origin = invs[j].origin
    /\ invs[i].pc = "awaitCheck" /\ invs[j].pc = "awaitCheck"
    /\ invs[i].log = <<"check.call">> /\ invs[j].log = <<"check.call">>

\* invocation i is made in this step and has its count at once: the count
\* comes from the cache
Hit(i) ==
  /\ i = Len(invs) + 1
  /\ Len(invs') = i
  /\ invs'[i].count # NoCount

HitIsYoungerThanTtl ==
  \A inv \in Orchestrations :
    /\ inv.age >= 0
    /\ inv.age < CACHE_TTL

WitnessHitIsYoungerThanTtl ==
  /\ \E inv \in Orchestrations : inv.age > 0 /\ inv.count # NoCount
  /\ toDateString(now) \in DOMAIN cache
  /\ ~cacheHit(cache, toDateString(now), now)

\* C14: each call of sendReminder makes exactly one delivery attempt: the
\* attempt is made when the call is made, nothing is attempted again after
\* the provider's answer, and the call returns on that answer.
OneAttemptPerSend ==
  \A inv \in Invocations :
    /\ inv.attempts = Occurrences(inv.log, "send.call")
    /\ inv.attempts <= 1
    /\ inv.answers =
         Occurrences(inv.log, "send.true") + Occurrences(inv.log, "send.false")
    /\ inv.answers = IF inv.pc = "awaitSend" THEN inv.attempts - 1
                                             ELSE inv.attempts

WitnessOneAttemptPerSend ==
  /\ \E inv \in Invocations :
       /\ Logged(inv, "send.false")
       /\ inv.pc = "returned"
       /\ inv.attempts = 1
  /\ \E inv \in Invocations : inv.pc = "awaitSend"

\* C15: sendReminder returns true only when the provider accepted the
\* message, returns false when the provider threw or answered with an error
\* object, and hands no error to its caller.
SendReminderAnswersBoolean ==
  \A inv \in Invocations :
    /\ Logged(inv, "send.true") <=> inv.accepted
    /\ Logged(inv, "send.false") <=> (inv.answers > 0 /\ ~inv.accepted)
    /\ inv.answers > 0 =>
         /\ inv.pc = "returned"
         /\ inv.thrown = Absent
         /\ inv.outcome.error = Absent
         /\ inv.outcome.sent = inv.accepted

WitnessSendReminderAnswersBoolean ==
  /\ \E inv \in Orchestrations :
       inv.answers = 1 /\ ~inv.accepted /\ ~inv.outcome.sent
  /\ \E inv \in Orchestrations :
       inv.answers = 1 /\ inv.accepted /\ inv.outcome.sent

\* C16: a failure of the contribution provider reaches the caller of
\* hasContributionToday as a failure: no count and no boolean is answered,
\* the caller gets the provider's error, and nothing is sent.
ProviderFailurePropagates ==
  \A inv \in Orchestrations :
    inv.providerError # Absent =>
      /\ inv.count = NoCount
      /\ inv.log = <<"check.call", "check.throw">>
      /\ inv.thrown = inv.providerError
      /\ inv.attempts = 0

WitnessProviderFailurePropagates ==
  \E inv \in Orchestrations :
    /\ inv.providerError = "Error: Bad credentials"
    /\ inv.pc = "returned"
    /\ ~Logged(inv, "send.call")

Missing == { key \in Required : process.env[key] = Absent }

\* C17: when a required configuration value is missing at startup the
\* process exits with a non-zero code without ever starting the scheduler:
\* no trigger is registered and nothing is invoked.
MissingConfigIsFatal ==
  Missing # {} =>
    /\ process.status \in {"loaded", "exited"}
    /\ process.status = "loaded" => ENABLED main
    /\ process.status = "exited" =>
         process.exitCode = 1 /\ process.logged = {"Failed to start application"}
    /\ tasks = <<>> /\ jobs = <<>> /\ invs = <<>>

WitnessMissingConfigIsFatal ==
  /\ Missing = {"EMAIL_TO"}
  /\ \A key \in Required \ {"EMAIL_TO"} : process.env[key] = "value"
  /\ process.status = "exited"
  /\ process.exitCode = 1

\* C18: after SIGINT or SIGTERM the process has exited with code 0, and by
\* then every trigger of the scheduler was stopped and its job list emptied.
SignalStopsThenExits ==
  process.logged \cap Signals # {} =>
    /\ process.status = "exited"
    /\ process.exitCode = 0
    /\ \A t \in 1..Len(tasks) : tasks[t].stopped
    /\ getActiveJobCount = 0

WitnessSignalStopsThenExits ==
  /\ "SIGTERM" \in process.logged
  /\ Len(tasks) = 1 /\ tasks[1].stopped
  /\ \E i \in 1..Len(invs) : invs[i].pc = "awaitSend"

\* C19 as claimed: an uncaught exception or an unhandled promise rejection
\* terminates the process.
EscapedErrorTerminates ==
  process.logged \cap {"Uncaught exception", "Unhandled promise rejection"} # {}
    => process.status = "exited"

\* C19 as amended: an uncaught exception terminates the process with exit
\* code 1; an unhandled promise rejection is logged and by itself leaves the
\* process running.
UncaughtExceptionTerminates ==
  /\ "Uncaught exception" \in process.logged =>
       process.status = "exited" /\ process.exitCode = 1
  /\ process.logged = {"Unhandled promise rejection"} =>
       process.status = "running" /\ process.exitCode = NoExit

WitnessUncaughtExceptionTerminates ==
  /\ process.logged = {"Unhandled promise rejection", "Uncaught exception"}
  /\ process.status = "exited"
  /\ \E i \in 1..Len(invs) : invs[i].pc = "returned"

RECURSIVE instantsFrom(_)
instantsFrom(t) ==
  IF t > CronMaxNow THEN {} ELSE {t} \cup instantsFrom(nextInstant(t))

\* the instants of the clock
CronInstants == instantsFrom(CronStart)

Firings(t, instants) ==
  { i \in 1..Len(invs) : invs[i].origin = t /\ invs[i].firedAt \in instants }

\* C20 as claimed: a registered trigger fires once per local day.
FiresOncePerDay ==
  \A t \in 1..Len(tasks) : \A day \in Days :
    Cardinality(Firings(t, { x \in CronInstants : toDateString(x) = day })) <= 1

\* C20 as amended: a registered trigger has fired exactly once at every
\* past instant its expression matches and at no other instant, and every
\* firing is one invocation of checkAndNotify, whatever the outcomes of the
\* invocations before it were.
FiresOncePerMatch ==
  \A t \in 1..Len(tasks) : \A instant \in CronInstants :
    LET n == Cardinality(Firings(t, {instant}))
    IN  /\ n <= 1
        /\ (instant < now /\ Matches(tasks[t].cron, instant)) => n = 1
        /\ (instant > now \/ ~Matches(tasks[t].cron, instant)) => n = 0
        /\ \A i \in Firings(t, {instant}) : invs[i].entry = "checkAndNotify"

WitnessFiresOncePerMatch ==
  \E t \in 1..Len(tasks) : \E i, j \in 1..Len(invs) :
    /\ tasks[t].kind = "reminder"
    /\ invs[i].origin = t /\ invs[j].origin = t
    /\ toDateString(invs[i].firedAt) < toDateString(invs[j].firedAt)
    /\ invs[i].outcome.sent
    /\ invs[j].pc = "returned"

\* the expression matches one minute of one hour: once a day
Daily(expression) ==
  Cardinality(expression.minutes) = 1 /\ Cardinality(expression.hours) = 1

TwoDailyJobsAfterStartup ==
  process.status = "running" =>
    /\ getActiveJobCount = 2
    /\ { tasks[t].cron : t \in Range(jobs) } =
         { cronExpression([hour |-> 20, minute |-> 0]),
           cronExpression([hour |-> 23, minute |-> 0]) }

\* C23: every scheduleCustom call appends one trigger: getActiveJobCount()
\* grows by exactly 1 and the triggers registered before stay registered and
\* untouched. The call is refused by nothing in the scheduler's state: only
\* the bound of the model on the number of triggers disables it.
ScheduleCustomAddsOneTrigger ==
  /\ [][ scheduleCustom =>
          /\ getActiveJobCount' = getActiveJobCount + 1
          /\ SubSeq(jobs', 1, Len(jobs)) = jobs
          /\ SubSeq(tasks', 1, Len(tasks)) = tasks
          /\ tasks'[jobs'[Len(jobs')]].kind = "custom"
          /\ ~tasks'[jobs'[Len(jobs')]].stopped
          /\ invs' = invs ]_vars
  /\ [](Len(tasks) < MaxTasks => ENABLED scheduleCustom)

WitnessScheduleCustomAddsOneTrigger ==
  /\ getActiveJobCount = 2
  /\ tasks[jobs[1]].kind = "reminder" /\ ~tasks[jobs[1]].stopped
  /\ tasks[jobs[2]].kind = "custom" /\ ~tasks[jobs[2]].stopped

\* C24: stop() on a scheduler without registered triggers (after an earlier
\* stop(), or before any start()) is possible and changes nothing: zero
\* triggers stay zero, nothing throws, no invocation starts.
StopIsIdempotent ==
  jobs = <<>> =>
    /\ ENABLED (stop /\ UNCHANGED vars)
    /\ ~ENABLED (stop /\ vars' # vars)

WitnessStopIsIdempotent ==
  /\ jobs = <<>>
  /\ tasks # <<>>
  /\ \A t \in 1..Len(tasks) : tasks[t].stopped

\* C25: an invocation of testNotification never queries the contribution
\* count and calls sendReminder exactly once, as its first step, whatever the
\* subject's contribution count is.
TestNotificationOnlySends ==
  \A inv \in Invocations :
    inv.entry = "testNotification" =>
      /\ inv.count = NoCount
      /\ inv.cacheKey = NoKey /\ inv.window = NoKey
      /\ \A n \in 1..Len(inv.log) :
           inv.log[n] \notin {"check.call", "check.true", "check.false", "check.throw"}
      /\ inv.log[1] = "send.call"
      /\ Occurrences(inv.log, "send.call") = 1
      /\ inv.attempts = 1

WitnessTestNotificationOnlySends ==
  /\ contributions[toDateString(now)] > 0
  /\ \E inv \in Invocations :
       /\ inv.entry = "testNotification"
       /\ inv.pc = "returned"
       /\ inv.outcome.sent
  /\ \E inv \in Invocations :
       /\ inv.entry = "testNotification"
       /\ inv.pc = "awaitSend"

\* the external calls of an invocation that have not answered yet
OutstandingCheck(inv) == IF inv.cacheKey # NoKey THEN 1 ELSE 0

OutstandingSend(inv) == inv.attempts - inv.answers

\* C29: an invocation of checkAndNotify has at most one external call
\* outstanding: the contribution query and the send are never in flight
\* together, each is issued at most once, and the send is issued only after
\* the query has answered.
OneOutstandingCall ==
  \A inv \in Orchestrations :
    /\ OutstandingCheck(inv) + OutstandingSend(inv) <= 1
    /\ Occurrences(inv.log, "check.call") <= 1
    /\ Occurrences(inv.log, "send.call") <= 1
    /\ \A n \in 1..Len(inv.log) :
         inv.log[n] = "send.call" => n > 1 /\ inv.log[n - 1] = "check.false"

WitnessOneOutstandingCall ==
  \E i, j \in 1..Len(invs) :
    /\ invs[i].entry = "checkAndNotify" /\ invs[j].entry = "checkAndNotify"
    /\ invs[i].pc = "awaitSend" /\ OutstandingSend(invs[i]) = 1
    /\ invs[j].pc = "awaitCheck" /\ OutstandingCheck(invs[j]) = 1

localDay(zone, t) ==
  LET wall == wallClock(zone, t)
      midnight == wall - (wall % DAY_MS)
  IN  [from |-> instantOf(zone, midnight),
       to |-> instantOf(zone, midnight + DAY_MS - 1)]

\* C26 as claimed: the window of every query is the local calendar day of
\* the configured timezone that contains the query instant, whatever the
\* timezone of the process is.
WindowIsConfiguredLocalDay ==
  \A k \in 1..Len(invs) :
    /\ invs[k].from = toISOString(localDay(invs[k].timezone, invs[k].at).from)
    /\ invs[k].to = toISOString(localDay(invs[k].timezone, invs[k].at).to)

\* the window is that local day when the process runs in the configured zone
WindowIsLocalDayInOwnZone ==
  \A k \in 1..Len(invs) :
    process.env["TZ"] = invs[k].timezone =>
      /\ invs[k].from = toISOString(localDay(invs[k].timezone, invs[k].at).from)
      /\ invs[k].to = toISOString(localDay(invs[k].timezone, invs[k].at).to)

\* the keys whose entry a step writes, and the keys whose entry it removes
Written == { k \in DOMAIN cache' : k \notin DOMAIN cache \/ cache'[k] # cache[k] }

Evicted == DOMAIN cache \ DOMAIN cache'

\* C28: with overlapping invocations every step keeps the cache consistent.
\* An entry is written only by the invocation whose query for that key is
\* answered in the step, with the count the provider returned and the time
\* of the answer; a step writes at most one entry; every other entry stays
\* as it was unless it is older than CACHE_TTL and is evicted. So an entry
\* always holds the provider's count for its key as of its timestamp.
CacheStaysConsistent ==
  /\ [][ /\ Cardinality(Written) <= 1
         /\ \A k \in Written :
              \E i \in 1..Len(invs) :
                /\ invs[i].pc = "awaitCheck"
                /\ invs[i].cacheKey = k
                /\ cache'[k] = [contributions |-> contributions[invs[i].window],
                                timestamp |-> now]
                /\ invs'[i].count = cache'[k].contributions
         /\ \A k \in Evicted : now - cache[k].timestamp > CACHE_TTL ]_vars
  /\ [](\A k \in DOMAIN cache \ outdated : cache[k].contributions = contributions[k])

WitnessCacheStaysConsistent ==
  /\ Cardinality(DOMAIN cache) = 2
  /\ \E k \in DOMAIN cache : toDateString(cache[k].timestamp) # k
  /\ Len(invs) = 2
  /\ \A i \in 1..Len(invs) : invs[i].count # NoCount /\ invs[i].age = 0

\* C30: when every external call is answered, with success or failure, every
\* invocation of checkAndNotify eventually returns to its caller; it returns
\* with exactly one NotificationResult, which is set when it returns and
\* never replaced afterwards.
EveryInvocationReturnsOneOutcome ==
  /\ \A i \in 1..MaxInv :
       (i <= Len(invs) /\ invs[i].entry = "checkAndNotify")
         ~> (i <= Len(invs) /\ invs[i].pc = "returned")
  /\ [](\A inv \in Orchestrations :
          inv.pc = "returned" <=> inv.outcome # NoOutcome)
  /\ [][ \A i \in 1..Len(invs) :
          invs[i].pc = "returned" => invs'[i] = invs[i] ]_vars

WitnessEveryInvocationReturnsOneOutcome ==
  /\ Len(invs) = MaxInv
  /\ \A i \in 1..Len(invs) :
       /\ invs[i].entry = "checkAndNotify"
       /\ invs[i].pc = "returned"
  /\ \E i, j \in 1..Len(invs) :
       /\ invs[i].outcome.reason = ReasonException
       /\ invs[j].outcome.reason = ReasonSendFailed

\* the branch of checkAndNotify an invocation returned from
CheckReturnedTrue(inv) == Logged(inv, "check.true")

SendReturnedFalse(inv) == Logged(inv, "check.false") /\ Logged(inv, "send.false")

ErrorWasThrown(inv) == inv.thrown # Absent

\* C31: the three reasons of an outcome of checkAndNotify that is not sent
\* are pairwise distinct and each comes from its own branch only: already
\* contributed exactly when the check returned true, send failed exactly when
\* the check returned false and sendReminder returned false, exception
\* exactly when an error was thrown; the error is attached to the exception
\* outcome and absent in the other two.
ReasonsNameTheirBranch ==
  /\ Cardinality({ReasonAlreadyContributed, ReasonSendFailed, ReasonException}) = 3
  /\ \A inv \in Orchestrations :
       (inv.pc = "returned" /\ ~inv.outcome.sent) =>
         /\ inv.outcome.reason \in
              {ReasonAlreadyContributed, ReasonSendFailed, ReasonException}
         /\ inv.outcome.reason = ReasonAlreadyContributed <=> CheckReturnedTrue(inv)
         /\ inv.outcome.reason = ReasonSendFailed <=> SendReturnedFalse(inv)
         /\ inv.outcome.reason = ReasonException <=> ErrorWasThrown(inv)
         /\ inv.outcome.error # Absent <=> inv.outcome.reason = ReasonException
         /\ Cardinality({ b \in {"true", "false", "thrown"} :
                            \/ b = "true" /\ CheckReturnedTrue(inv)
                            \/ b = "false" /\ SendReturnedFalse(inv)
                            \/ b = "thrown" /\ ErrorWasThrown(inv) }) = 1

WitnessReasonsNameTheirBranch ==
  \E a, b \in Orchestrations :
    /\ a.pc = "returned" /\ b.pc = "returned"
    /\ a.outcome.reason = ReasonAlreadyContributed /\ a.outcome.error = Absent
    /\ b.outcome.reason = ReasonException /\ b.outcome.error \in CheckErrors

\* C32 as claimed: a cache hit returns a count that was obtained on the same
\* calendar day of the configured timezone as the day of the call: a count
\* of yesterday is not reused after the configured timezone's midnight.
HitIsOfTheSameLocalDay ==
  \A k \in 1..Len(invs) :
    invs[k].hit =>
      localDateString(invs[k].timezone, invs[k].obtainedAt)
        = localDateString(invs[k].timezone, invs[k].at)

\* a hit is of the same local day when the process runs in the configured zone
HitIsOfTheSameLocalDayInOwnZone ==
  \A k \in 1..Len(invs) :
    (invs[k].hit /\ process.env["TZ"] = invs[k].timezone) =>
      localDateString(invs[k].timezone, invs[k].obtainedAt)
        = localDateString(invs[k].timezone, invs[k].at)

\* C33: a getContributionCount whose query fails leaves the cache as it was:
\* no entry is added, overwritten or removed. So a call that finds no
\* unexpired entry for its key, after a failure as at any other time, queries
\* the provider.
FailureLeavesCache ==
  /\ [][ \A i \in 1..Len(invs) :
          (invs[i].pc = "awaitCheck" /\ invs'[i].providerError # Absent)
            => cache' = cache ]_vars
  /\ [][ \A t \in 1..Len(tasks) :
          (Fire(t) /\ ~cacheHit(cache, toDateString(now), now)) =>
            /\ invs'[Len(invs')].pc = "awaitCheck"
            /\ invs'[Len(invs')].log = <<"check.call">> ]_vars

WitnessFailureLeavesCache ==
  /\ cache = [k \in {} |-> [contributions |-> 0, timestamp |-> 0]]
  /\ \E i, j \in 1..Len(invs) :
       /\ i < j
       /\ invs[i].providerError # Absent
       /\ invs[i].pc = "returned"
       /\ invs[j].pc = "awaitCheck"

\* C34: right after a successful fetch the cache holds the entry just
\* fetched, stamped with the time of the answer, and no entry older than
\* CACHE_TTL; nothing but a successful fetch removes an entry.
FetchSweepsCache ==
  /\ [][ \A i \in 1..Len(invs) :
          CheckResponds(i) =>
            /\ invs[i].cacheKey \in DOMAIN cache'
            /\ cache'[invs[i].cacheKey] =
                 [contributions |-> invs'[i].count, timestamp |-> now]
            /\ \A k \in DOMAIN cache' : ~(now - cache'[k].timestamp > CACHE_TTL) ]_vars
  /\ [][ DOMAIN cache \ DOMAIN cache' # {} =>
          \E i \in 1..Len(invs) : CheckResponds(i) ]_vars

\* the count of the first invocation is of day 0 and its entry is gone: the
\* fetch of day 1 has swept it
WitnessFetchSweepsCache ==
  /\ Len(invs) = 2
  /\ toDateString(now) = 1
  /\ invs[1].count # NoCount /\ invs[1].count > contributions[1]
  /\ invs[2].count # NoCount
  /\ DOMAIN cache = {1}
  /\ cache[1].timestamp = now

\* the triggers start() has registered
Reminders == { t \in 1..Len(tasks) : tasks[t].kind = "reminder" }

\* C35: start() can be called again without a stop() in between and then
\* registers another trigger for the same time of day, so that after k calls
\* getActiveJobCount() counts k of them; at every instant that matches the
\* reminder time each of the k triggers has invoked checkAndNotify once.
StartIsNotGuarded ==
  /\ [][ start =>
          /\ getActiveJobCount' = getActiveJobCount + 1
          /\ tasks'[Len(tasks')] = task("reminder", cronExpression(ReminderTime))
          /\ SubSeq(tasks', 1, Len(tasks)) = tasks ]_vars
  /\ [](Len(tasks) < MaxTasks => ENABLED start)
  /\ [](\A instant \in CronInstants :
          (instant < now /\ Matches(cronExpression(ReminderTime), instant)) =>
            /\ \A t \in Reminders : Cardinality(Firings(t, {instant})) = 1
            /\ Cardinality(UNION { Firings(t, {instant}) : t \in Reminders })
                 = Cardinality(Reminders))

WitnessStartIsNotGuarded ==
  /\ getActiveJobCount = 2
  /\ Cardinality(Reminders) = 2
  /\ tasks[1] = tasks[2]
  /\ \E i, j \in 1..Len(invs) :
       /\ invs[i].origin = 1 /\ invs[j].origin = 2
       /\ invs[i].firedAt = invs[j].firedAt
       /\ invs[i].firedAt < now

\* C36: the shutdown handler does not wait for invocations in flight. While
\* the process runs, SIGINT and SIGTERM are handled whatever the invocations
\* await; the handler stops the scheduler and exits without touching them,
\* and after the exit no invocation changes: one that awaited its check or
\* its send never produces an outcome.
ShutdownDoesNotWait ==
  /\ [](process.status = "running" =>
          \A signal \in Signals : ENABLED shutdown(signal))
  /\ [][ \A signal \in Signals :
          shutdown(signal) =>
            /\ invs' = invs
            /\ getActiveJobCount' = 0
            /\ process'.status = "exited" ]_vars
  /\ [][ process.status = "exited" => invs' = invs ]_vars
  /\ [](process.status = "exited" =>
          \A i \in 1..Len(invs) :
            InFlight(i) => invs[i].outcome = NoOutcome)

WitnessShutdownDoesNotWait ==
  /\ process.status = "exited"
  /\ "SIGINT" \in process.logged
  /\ \E i, j \in 1..Len(invs) :
       /\ invs[i].pc = "awaitCheck" /\ invs[i].outcome = NoOutcome
       /\ invs[j].pc = "awaitSend" /\ invs[j].outcome = NoOutcome

====
